---- MODULE Spec2Model ----
(***************************************************************************)
(* A model of app.py, the Streamlit front end of a yt-dlp downloader.      *)
(*                                                                         *)
(*   Spec          runs of the UI script, one per user interaction         *)
(*   SpecDownload  download_video and download_audio called directly       *)
(*   SpecFormats   list_available_resolutions and list_audio_formats       *)
(*                 applied to bounded stream lists                         *)
(*   SpecTransfer  read_first_file_by_prefix and detect_mime_from_ext      *)
(*                 applied to bounded directories and extensions           *)
(*                                                                         *)
(* Python values are encoded as follows.  An absent dictionary key and the *)
(* value None are both what dict.get returns for them, None: Absent for a  *)
(* string field, <<>> for a numeric field, whose known value x is <<x>>.   *)
(* A bitrate (abr, a float in kbps) is kept in tenths of a kbps, so that   *)
(* int(abr) truncates.  A file name or an extension is the tuple of its    *)
(* characters.                                                             *)
(***************************************************************************)
EXTENDS Integers, Sequences, FiniteSets, TLC

VARIABLES
    formats,    \* info["formats"], the stream descriptors of the metadata
    fdone,      \* which of the two format selectors have been applied
    heights,    \* the value list_available_resolutions returned
    audio,      \* the value list_audio_formats returned
    folder,     \* a directory: file name -> file contents
    ext,        \* an extension handed to detect_mime_from_ext
    tdone,      \* which of the two transfer functions have been applied
    scan,       \* the outcome of read_first_file_by_prefix
    mime,       \* the value detect_mime_from_ext returned
    pc,         \* where the script, or the download call, stands
    call,       \* the download call in progress, with its arguments
    ydl_opts,   \* the options the call built for the extractor
    tmp,        \* the scratch directory of the call
    fs,         \* the scratch directories that exist: name -> directory
    requests,   \* how many download calls have ended (counted to MaxRequests)
    result,     \* what the call returned or raised
    catalog,    \* the streams the site offers
    extractor,  \* how the extractor behaves in this call
    url,        \* the text input
    choice,     \* the radio button, "Video" or "Audio"
    clicked,    \* whether the rendered download button reports a click
    info,       \* the metadata the script holds
    shown,      \* what the run has rendered
    ncalls,     \* download calls made in this run
    nfetch,     \* get_video_info calls made in this run
    fetch_raised \* whether get_video_info raised in this run

fvars == <<formats, fdone, heights, audio>>
tvars == <<folder, ext, tdone, scan, mime>>
dvars_but_pc == <<call, ydl_opts, tmp, fs, requests, result, catalog, extractor>>
dvars == <<pc, call, ydl_opts, tmp, fs, requests, result, catalog, extractor>>
uvars == <<url, choice, clicked, info, shown, ncalls, nfetch, fetch_raised>>
vars == <<fvars, tvars, dvars, uvars>>

\* The longest stream list drawn as an input.
MaxFormats == 3

\* What dict.get returns for a missing string field.
Absent == "<None>"

\* Python truthiness of an optional number: None and 0 are falsy.
Truthy(n) == n # <<>> /\ n[1] # 0

\* Python truthiness of an optional string: None and "" are falsy.
TruthyStr(s) == s # Absent /\ s # ""

\* int(abr) of a non-negative float kept in tenths.
IntOfAbr(abr) == abr \div 10

Range(s) == {s[i] : i \in DOMAIN s}

(***************************************************************************)
(* Stream descriptors the inputs are drawn from: video-only, combined,     *)
(* codec-less, audio-only with fractional, equal-after-truncation,         *)
(* unknown and sub-1 bitrates, and a storyboard (no codecs, with height).  *)
(***************************************************************************)
Fmt(v, a, h, b, e) == [vcodec |-> v, acodec |-> a, height |-> h, abr |-> b, ext |-> e]

FormatPool ==
    { Fmt("vp9",  "none",  <<1080>>, <<>>,     "webm"),
      Fmt("vp9",  "none",  <<720>>,  <<>>,     "webm"),
      Fmt("avc1", "mp4a",  <<720>>,  <<1280>>, "mp4"),
      Fmt("avc1", "none",  <<0>>,    <<>>,     "mp4"),
      Fmt(Absent, Absent,  <<480>>,  <<>>,     "mp4"),
      Fmt(Absent, "opus",  <<>>,     <<1280>>, "webm"),
      Fmt("none", "opus",  <<>>,     <<1600>>, "webm"),
      Fmt("none", "opus",  <<>>,     <<1605>>, "webm"),
      Fmt("none", "mp4a",  <<>>,     <<1285>>, "m4a"),
      Fmt("none", "mp4a",  <<>>,     <<>>,     Absent),
      Fmt("none", "mp4a",  <<>>,     <<5>>,    "m4a"),
      Fmt("none", "mp4a",  <<>>,     <<0>>,    ""),
      Fmt("none", "none",  <<360>>,  <<>>,     "mhtml"),
      Fmt("none", Absent,  <<>>,     <<1280>>, "m4a") }

FormatLists == UNION {[1..n -> FormatPool] : n \in 0..MaxFormats}

Max(S) == CHOOSE x \in S : \A y \in S : y <= x
Min(S) == CHOOSE x \in S : \A y \in S : x <= y

\* sorted(S, reverse=True) of a set of integers.
RECURSIVE SortedDesc(_)
SortedDesc(S) == IF S = {} THEN <<>> ELSE <<Max(S)>> \o SortedDesc(S \ {Max(S)})

\* sorted(S) of a set of integers.
RECURSIVE SortedAsc(_)
SortedAsc(S) == IF S = {} THEN <<>> ELSE <<Min(S)>> \o SortedAsc(S \ {Min(S)})

\* The loop with a codec test that also rejects a missing vcodec.
HeightSet_present(fmts) ==
    {f.height[1] : f \in {g \in Range(fmts) :
        g.vcodec \notin {Absent, "none"} /\ Truthy(g.height)}}

\* The heights set built by the loop of list_available_resolutions.
HeightSet(fmts) ==
    {f.height[1] : f \in {g \in Range(fmts) : g.vcodec # "none" /\ Truthy(g.height)}}

list_available_resolutions_asc(fmts) == SortedAsc(HeightSet(fmts))

list_available_resolutions(fmts) == SortedDesc(HeightSet(fmts))

\* The (ext, abr) tuple appended for one audio-only stream.
AudioEntry(f) ==
    << IF TruthyStr(f.ext) THEN f.ext ELSE "m4a",
       IF Truthy(f.abr) THEN <<IntOfAbr(f.abr[1])>> ELSE <<>> >>

IsAudioOnly(f) == f.vcodec = "none" /\ f.acodec \notin {Absent, "none"}

\* The list `audio` after the loop of list_audio_formats.
RECURSIVE AudioList(_)
AudioList(fmts) ==
    IF fmts = <<>> THEN <<>>
    ELSE (IF IsAudioOnly(Head(fmts)) THEN <<AudioEntry(Head(fmts))>> ELSE <<>>)
         \o AudioList(Tail(fmts))

\* Every order in which a set can be enumerated.
Orders(S) ==
    {s \in [1..Cardinality(S) -> S] : \A i, j \in DOMAIN s : s[i] = s[j] => i = j}

\* list({(a, b) for (a, b) in audio}): the distinct tuples in the order the
\* set happens to iterate in, which the language leaves open.
DedupOrders_keep(lst) == {lst}

DedupOrders(lst) == Orders(Range(lst))

\* The sort key, x[1] or 0.
AbrKey(e) == IF Truthy(e[2]) THEN e[2][1] ELSE 0

\* list.sort(key, reverse=True) is stable: an element goes after every element
\* already placed whose key is at least its own.
RECURSIVE InsertDesc(_, _)
InsertDesc(x, s) ==
    IF s = <<>> THEN <<x>>
    ELSE IF AbrKey(Head(s)) >= AbrKey(x) THEN <<Head(s)>> \o InsertDesc(x, Tail(s))
    ELSE <<x>> \o s

RECURSIVE InsertAsc(_, _)
InsertAsc(x, s) ==
    IF s = <<>> THEN <<x>>
    ELSE IF AbrKey(Head(s)) <= AbrKey(x) THEN <<Head(s)>> \o InsertAsc(x, Tail(s))
    ELSE <<x>> \o s

RECURSIVE SortByAbr_asc(_)
SortByAbr_asc(lst) ==
    IF lst = <<>> THEN <<>>
    ELSE InsertAsc(lst[Len(lst)], SortByAbr_asc(SubSeq(lst, 1, Len(lst) - 1)))

RECURSIVE SortByAbr(_)
SortByAbr(lst) ==
    IF lst = <<>> THEN <<>>
    ELSE InsertDesc(lst[Len(lst)], SortByAbr(SubSeq(lst, 1, Len(lst) - 1)))

\* Every value list_audio_formats can return for a stream list.
list_audio_formats(fmts) == {SortByAbr(o) : o \in DedupOrders(AudioList(fmts))}

(***************************************************************************)
(* Transfer layer: detect_mime_from_ext and read_first_file_by_prefix.     *)
(***************************************************************************)
UpperChars == <<"A","B","C","D","E","F","G","H","I","J","K","L","M",
                "N","O","P","Q","R","S","T","U","V","W","X","Y","Z">>
LowerChars == <<"a","b","c","d","e","f","g","h","i","j","k","l","m",
                "n","o","p","q","r","s","t","u","v","w","x","y","z">>

\* str.lower() on ASCII text.
LowerChar(c) ==
    IF \E i \in DOMAIN UpperChars : UpperChars[i] = c
    THEN LowerChars[CHOOSE i \in DOMAIN UpperChars : UpperChars[i] = c]
    ELSE c

Lower(s) == [i \in DOMAIN s |-> LowerChar(s[i])]

\* The dictionary `mapping` of detect_mime_from_ext.
mapping ==
    (<<"m","p","4">> :> "video/mp4") @@
    (<<"w","e","b","m">> :> "video/webm") @@
    (<<"m","k","v">> :> "video/x-matroska") @@
    (<<"m","p","3">> :> "audio/mpeg") @@
    (<<"m","4","a">> :> "audio/mp4") @@
    (<<"a","a","c">> :> "audio/aac") @@
    (<<"o","p","u","s">> :> "audio/ogg") @@
    (<<"w","a","v">> :> "audio/wav")

detect_mime_from_ext_exact(e) ==
    IF e \in DOMAIN mapping THEN mapping[e] ELSE "application/octet-stream"

detect_mime_from_ext(e) ==
    IF Lower(e) \in DOMAIN mapping THEN mapping[Lower(e)]
    ELSE "application/octet-stream"

\* name.startswith(prefix)
StartsWith(name, prefix) ==
    Len(name) >= Len(prefix) /\ SubSeq(name, 1, Len(prefix)) = prefix

\* `prefix in name`, a substring test.
Contains(name, prefix) ==
    \E i \in 1..(Len(name) - Len(prefix) + 1) :
        SubSeq(name, i, i + Len(prefix) - 1) = prefix

\* name.split(".")[-1]: the text after the last dot, the whole name without one.
LastPart(name) ==
    LET dots == {i \in DOMAIN name : name[i] = "."}
    IN IF dots = {} THEN name ELSE SubSeq(name, Max(dots) + 1, Len(name))

\* The extension read_first_file_by_prefix takes from a matching name.
ExtOf(name) == LastPart(name)

\* The test read_first_file_by_prefix makes on each listed name.
Matches_contains(name, prefix) == Contains(name, prefix)

Matches(name, prefix) == StartsWith(name, prefix)

NoScan == [status |-> "none"]

\* read_first_file_by_prefix over a directory whose os.listdir order is
\* `listing` and whose files hold `content`.
RECURSIVE read_first_file_by_prefix(_, _, _)
read_first_file_by_prefix(listing, content, prefix) ==
    IF listing = <<>> THEN [status |-> "FileNotFoundError"]
    ELSE IF Matches(Head(listing), prefix)
         THEN [status |-> "ok", data |-> content[Head(listing)],
               filename |-> Head(listing),
               mime |-> detect_mime_from_ext(ExtOf(Head(listing)))]
         ELSE read_first_file_by_prefix(Tail(listing), content, prefix)

\* The fixed stem both downloaders pass, "output."
STEM == <<"o","u","t","p","u","t",".">>

\* The most files a drawn directory holds.
MaxFiles == 2

NamePool ==
    { STEM \o <<"m","p","4">>,
      STEM \o <<"M","K","V">>,
      STEM \o <<"m","p","3">>,
      STEM \o <<"x","y","z">>,
      STEM,
      STEM \o <<"m","p","4",".","p","a","r","t">>,
      STEM \o <<"f","1",".","w","e","b","m">>,
      <<"o","u","t","p","u","t">>,
      <<"o","u","t","p","u","t","x",".","m","p","4">>,
      <<"x">> \o STEM \o <<"m","p","4">>,
      <<"n","o","t","e","s",".","w","a","v">> }

Bytes == {"b1", "b2"}

Folders ==
    UNION {[S -> Bytes] : S \in {T \in SUBSET NamePool : Cardinality(T) <= MaxFiles}}

ExtPool ==
    DOMAIN mapping \cup
    { <<"x","y","z">>, <<>>, <<"M","P","3">>, <<"M","k","v">>,
      <<"m","p","4","x">>, <<"o","g","g">>, <<"m","p">> }


(***************************************************************************)
(* Downloaders: download_video and download_audio.                         *)
(***************************************************************************)
\* The longest stream list the site offers during a download.
MaxCatalog == 2

\* Completed download calls are counted up to this many.
MaxRequests == 2

CatalogPool ==
    { Fmt("vp9",  "none", <<1080>>, <<>>,     "webm"),
      Fmt("vp9",  "none", <<720>>,  <<>>,     "webm"),
      Fmt("avc1", "mp4a", <<720>>,  <<1280>>, "mp4"),
      Fmt("avc1", "none", <<480>>,  <<>>,     "mp4"),
      Fmt("none", "opus", <<>>,     <<1600>>, "webm"),
      Fmt("none", "mp4a", <<>>,     <<1285>>, "m4a") }

Catalogs == UNION {[1..n -> CatalogPool] : n \in 0..MaxCatalog}

\* The characters of the extensions that occur as strings.
Chars ==
    ("mp4" :> <<"m","p","4">>) @@ ("webm" :> <<"w","e","b","m">>) @@
    ("m4a" :> <<"m","4","a">>) @@ ("mp3" :> <<"m","p","3">>) @@
    ("opus" :> <<"o","p","u","s">>)

\* One term of a format-selection expression, "bestvideo[height=h]" or "best".
Term(sel, h) == [sel |-> sel, height |-> h]

\* format_selector of download_video: the alternatives separated by "/", each
\* the terms joined by "+".
format_selector_no_best(height) ==
    IF Truthy(height)
    THEN << <<Term("bestvideo", height), Term("bestaudio", <<>>)>>,
            <<Term("best", height)>> >>
    ELSE << <<Term("bestvideo", <<>>), Term("bestaudio", <<>>)>> >>

format_selector(height) ==
    IF Truthy(height)
    THEN << <<Term("bestvideo", height), Term("bestaudio", <<>>)>>,
            <<Term("best", height)>>,
            <<Term("best", <<>>)>> >>
    ELSE << <<Term("bestvideo", <<>>), Term("bestaudio", <<>>)>>,
            <<Term("best", <<>>)>> >>

\* preferredquality of download_audio, target_quality_kbps or 192.
DefaultQuality == 192

video_ydl_opts(height) ==
    [format |-> format_selector(height),
     merge_output_format |-> "mp4",
     postprocessors |-> <<>>]

audio_ydl_opts(target_codec, target_quality_kbps) ==
    [format |-> << <<Term("bestaudio", <<>>)>>, <<Term("best", <<>>)>> >>,
     merge_output_format |-> Absent,
     postprocessors |->
        << [key |-> "FFmpegExtractAudio",
            preferredcodec |-> target_codec,
            preferredquality |->
                IF Truthy(target_quality_kbps) THEN target_quality_kbps[1]
                ELSE DefaultQuality] >>]

(***************************************************************************)
(* The extractor is an external library.  Its stand-in evaluates the       *)
(* alternatives of the expression left to right and writes one file,       *)
(* output.<ext>, for the first alternative every term of which some stream *)
(* of the catalog satisfies; "best" is the overall best stream.            *)
(***************************************************************************)
TermMatches(f, t) ==
    /\ CASE t.sel = "bestvideo" -> f.vcodec # "none"
         [] t.sel = "bestaudio" -> f.acodec \notin {Absent, "none"}
         [] OTHER -> TRUE
    /\ t.height # <<>> => f.height = t.height

AltMatches(cat, alt) ==
    \A i \in DOMAIN alt : \E f \in Range(cat) : TermMatches(f, alt[i])

\* The index of the first alternative that matches, 0 when none does.
FirstMatch(cat, sel) ==
    LET ok == {i \in DOMAIN sel : AltMatches(cat, sel[i])}
    IN IF ok = {} THEN 0 ELSE Min(ok)

\* The names the stand-in may give its output file.
StubOutputNames(cat, opts) ==
    LET alt == opts.format[FirstMatch(cat, opts.format)]
    IN IF opts.postprocessors # <<>>
       THEN {STEM \o Chars[opts.postprocessors[1].preferredcodec]}
       ELSE IF Len(alt) > 1
       THEN {STEM \o Chars[opts.merge_output_format]}
       ELSE {STEM \o Chars[f.ext] : f \in {g \in Range(cat) : TermMatches(g, alt[1])}}

\* What a failed extractor run may leave in the scratch directory.
Leftovers ==
    { <<>>,
      (STEM \o <<"m","p","4",".","p","a","r","t">>) :> "b1",
      <<"o","u","t","p","u","t">> :> "b1" }

\* Leftovers none of which carries the stem.
StemlessLeftovers ==
    {l \in Leftovers : \A n \in DOMAIN l : ~StartsWith(n, STEM)}

\* The names tempfile can give a scratch directory.
DirNames == {"tmpA", "tmpB"}

NoTmp == "<None>"
NoCall == [fn |-> "none"]
NoOpts == [format |-> <<>>]
NoResult == [status |-> "none"]

\* A directory tree without directory d.
Remove(tree, d) == [x \in DOMAIN tree \ {d} |-> tree[x]]

\* TemporaryDirectory.__exit__ deleting only after a normal return.
Cleanup_on_success(tree, d, res) ==
    IF res.status = "ok" THEN Remove(tree, d) ELSE tree

\* TemporaryDirectory.__exit__: the directory is deleted however the block ends.
Cleanup(tree, d, res) == Remove(tree, d)

(***************************************************************************)
(* The UI script.                                                          *)
(***************************************************************************)
\* The options of the bitrate slider.
quality_options == {320, 256, 192, 160, 128, 96, 64}

InfoNone == [kind |-> "None"]
InfoEmpty == [kind |-> "empty"]
InfoOf(cat) == [kind |-> "dict", formats |-> cat]

\* `if url:` on the always-fetch variant.
ShouldFetch_always(u) == TRUE

\* `if url:`
ShouldFetch(u) == u # ""

\* `if info:`: None and the empty dictionary are falsy.
InfoTruthy(i) == i.kind = "dict"

Exceptions == {"DownloadError", "FileNotFoundError"}

\* `except FileNotFoundError`
Caught_only_missing(kind) == kind = "FileNotFoundError"

\* `except Exception`: every exception class the calls raise derives from it.
Caught(kind) == kind \in Exceptions

\* The codec choices of the audio branch.
codecs(af) == {e[1] : e \in Range(af)} \cup {"mp3", "m4a"}

Controls ==
    {"title", "resolution_select", "video_button",
     "codec_select", "bitrate_slider", "audio_button"}

(***************************************************************************)
(* The body of a download call, shared by both downloaders: the with block *)
(* over the scratch directory, the extractor run, the scan, the exit.      *)
(***************************************************************************)
InitDownload ==
    /\ pc = "idle" /\ call = NoCall /\ ydl_opts = NoOpts /\ tmp = NoTmp
    /\ fs = <<>> /\ requests = 0 /\ result = NoResult
    /\ catalog = <<>> /\ extractor = "stub"

InitUI ==
    /\ url = "" /\ choice = "Video" /\ clicked = FALSE /\ info = InfoNone
    /\ shown = {} /\ ncalls = 0 /\ nfetch = 0 /\ fetch_raised = FALSE

InitIdleFormats ==
    /\ formats = <<>> /\ fdone = {} /\ heights = <<>> /\ audio = <<>>

InitIdleTransfer ==
    /\ folder = <<>> /\ ext = <<>> /\ tdone = {} /\ scan = NoScan /\ mime = ""

\* `with tempfile.TemporaryDirectory() as tmp:` and the options built in it.
EnterTmp ==
    /\ pc = "enter"
    /\ \E d \in DirNames \ DOMAIN fs :
        /\ tmp' = d
        /\ fs' = fs @@ (d :> <<>>)
    /\ ydl_opts' = IF call.fn = "download_video"
                   THEN video_ydl_opts(call.height)
                   ELSE audio_ydl_opts(call.target_codec, call.target_quality_kbps)
    /\ extractor' \in {"stub", "faulty"}
    /\ pc' = "extract"
    /\ UNCHANGED <<call, requests, result, catalog>>
    /\ UNCHANGED <<fvars, tvars, uvars>>

\* ydl.download([url]) returns, the output file written.
ExtractorDownloads ==
    /\ pc = "extract"
    /\ extractor = "stub"
    /\ FirstMatch(catalog, ydl_opts.format) # 0
    /\ \E name \in StubOutputNames(catalog, ydl_opts), b \in Bytes :
        fs' = [fs EXCEPT ![tmp] = name :> b]
    /\ pc' = "scan"
    /\ UNCHANGED <<call, ydl_opts, tmp, requests, result, catalog, extractor>>
    /\ UNCHANGED <<fvars, tvars, uvars>>

\* ydl.download([url]) raises: no alternative matches, or the run fails.
ExtractorRaises ==
    /\ pc = "extract"
    /\ \/ extractor = "stub" /\ FirstMatch(catalog, ydl_opts.format) = 0
       \/ extractor = "faulty"
    /\ \E left \in Leftovers : fs' = [fs EXCEPT ![tmp] = left]
    /\ result' = [status |-> "DownloadError"]
    /\ pc' = "exit"
    /\ UNCHANGED <<call, ydl_opts, tmp, requests, catalog, extractor>>
    /\ UNCHANGED <<fvars, tvars, uvars>>

\* ydl.download([url]) returns without an output file (no merge tool).
ExtractorNoOutput ==
    /\ pc = "extract"
    /\ extractor = "faulty"
    /\ \E left \in StemlessLeftovers : fs' = [fs EXCEPT ![tmp] = left]
    /\ pc' = "scan"
    /\ UNCHANGED <<call, ydl_opts, tmp, requests, result, catalog, extractor>>
    /\ UNCHANGED <<fvars, tvars, uvars>>

\* read_first_file_by_prefix(tmp, "output.")
ScanTmp ==
    /\ pc = "scan"
    /\ \E listing \in Orders(DOMAIN fs[tmp]) :
        result' = read_first_file_by_prefix(listing, fs[tmp], STEM)
    /\ pc' = "exit"
    /\ UNCHANGED <<call, ydl_opts, tmp, fs, requests, catalog, extractor>>
    /\ UNCHANGED <<fvars, tvars, uvars>>

\* The with block ends, by return or by exception.
ExitTmp ==
    /\ pc = "exit"
    /\ fs' = Cleanup(fs, tmp, result)
    /\ tmp' = NoTmp
    /\ requests' = IF requests < MaxRequests THEN requests + 1 ELSE requests
    /\ pc' = "returned"
    /\ UNCHANGED <<call, ydl_opts, result, catalog, extractor>>
    /\ UNCHANGED <<fvars, tvars, uvars>>

(***************************************************************************)
(* SpecDownload: the two downloaders called directly with drawn arguments. *)
(***************************************************************************)
HeightArgs == {<<>>, <<0>>, <<480>>, <<720>>, <<1080>>}
CodecArgs == {"m4a", "mp3", "opus"}
QualityArgs == {<<>>, <<128>>}

CallDownloadVideo ==
    /\ pc = "idle"
    /\ \E h \in HeightArgs : call' = [fn |-> "download_video", height |-> h]
    /\ catalog' \in Catalogs
    /\ pc' = "enter"
    /\ UNCHANGED <<ydl_opts, tmp, fs, requests, result, extractor>>
    /\ UNCHANGED <<fvars, tvars, uvars>>

CallDownloadAudio ==
    /\ pc = "idle"
    /\ \E c \in CodecArgs, q \in QualityArgs :
        call' = [fn |-> "download_audio", target_codec |-> c,
                 target_quality_kbps |-> q]
    /\ catalog' \in Catalogs
    /\ pc' = "enter"
    /\ UNCHANGED <<ydl_opts, tmp, fs, requests, result, extractor>>
    /\ UNCHANGED <<fvars, tvars, uvars>>

\* The caller takes the result or the exception.
ReturnToCaller ==
    /\ pc = "returned"
    /\ pc' = "idle"
    /\ call' = NoCall /\ ydl_opts' = NoOpts /\ result' = NoResult
    /\ catalog' = <<>> /\ extractor' = "stub"
    /\ UNCHANGED <<tmp, fs, requests>>
    /\ UNCHANGED <<fvars, tvars, uvars>>

InitSpecDownload == InitDownload /\ InitUI /\ InitIdleFormats /\ InitIdleTransfer

NextDownload ==
    \/ CallDownloadVideo \/ CallDownloadAudio
    \/ EnterTmp \/ ExtractorDownloads \/ ExtractorRaises \/ ExtractorNoOutput
    \/ ScanTmp \/ ExitTmp \/ ReturnToCaller

SpecDownload == InitSpecDownload /\ [][NextDownload]_vars

(***************************************************************************)
(* Spec: runs of the UI script, one per user interaction.                  *)
(***************************************************************************)
\* A user interaction starts the script over with the widgets' current values.
StartRun ==
    /\ pc = "idle"
    /\ url' \in {"", "https://youtu.be/x"}
    /\ choice' \in {"Video", "Audio"}
    /\ clicked' \in BOOLEAN
    /\ catalog' \in Catalogs
    /\ pc' = "fetch"
    /\ UNCHANGED <<info, shown, ncalls, nfetch, fetch_raised>>
    /\ UNCHANGED <<call, ydl_opts, tmp, fs, requests, result, extractor>>
    /\ UNCHANGED <<fvars, tvars>>

\* `if url:` is false: get_video_info is not called.
SkipFetch ==
    /\ pc = "fetch"
    /\ ~ShouldFetch(url)
    /\ pc' = "render"
    /\ UNCHANGED <<dvars_but_pc, fvars, tvars, uvars>>

\* get_video_info(url) returns the metadata, None or an empty dictionary.
FetchReturns ==
    /\ pc = "fetch"
    /\ ShouldFetch(url)
    /\ info' \in {InfoOf(catalog), InfoNone, InfoEmpty}
    /\ nfetch' = nfetch + 1
    /\ pc' = "render"
    /\ UNCHANGED <<url, choice, clicked, shown, ncalls, fetch_raised>>
    /\ UNCHANGED <<dvars_but_pc, fvars, tvars>>

\* get_video_info(url) raises and the except clause shows the error.
FetchRaises ==
    /\ pc = "fetch"
    /\ ShouldFetch(url)
    /\ nfetch' = nfetch + 1
    /\ fetch_raised' = TRUE
    /\ IF Caught("DownloadError")
       THEN shown' = shown \cup {"error_fetch"} /\ pc' = "render"
       ELSE shown' = shown /\ pc' = "crashed"
    /\ UNCHANGED <<url, choice, clicked, info, ncalls>>
    /\ UNCHANGED <<dvars_but_pc, fvars, tvars>>

\* `if info:` is false: the script goes to its footer.
RenderNothing ==
    /\ pc = "render"
    /\ ~InfoTruthy(info)
    /\ pc' = "end"
    /\ UNCHANGED <<dvars_but_pc, fvars, tvars, uvars>>

\* The video branch: the resolution picker, the button, the call on a click.
RenderVideo ==
    /\ pc = "render"
    /\ InfoTruthy(info)
    /\ choice = "Video"
    /\ shown' = shown \cup {"title", "resolution_select", "video_button"}
    /\ \E sel_height \in {<<>>} \cup
            {<<h>> : h \in Range(list_available_resolutions(info.formats))} :
        IF clicked
        THEN /\ call' = [fn |-> "download_video", height |-> sel_height]
             /\ ncalls' = ncalls + 1
             /\ pc' = "enter"
        ELSE /\ call' = call /\ ncalls' = ncalls /\ pc' = "end"
    /\ UNCHANGED <<url, choice, clicked, info, nfetch, fetch_raised>>
    /\ UNCHANGED <<ydl_opts, tmp, fs, requests, result, catalog, extractor>>
    /\ UNCHANGED <<fvars, tvars>>

\* The audio branch: the codec picker, the slider, the button, the call.
RenderAudio ==
    /\ pc = "render"
    /\ InfoTruthy(info)
    /\ choice = "Audio"
    /\ shown' = shown \cup {"title", "codec_select", "bitrate_slider", "audio_button"}
    /\ \E audio_formats \in list_audio_formats(info.formats) :
       \E sel_codec \in codecs(audio_formats), sel_quality \in quality_options :
        IF clicked
        THEN /\ call' = [fn |-> "download_audio", target_codec |-> sel_codec,
                         target_quality_kbps |-> <<sel_quality>>]
             /\ ncalls' = ncalls + 1
             /\ pc' = "enter"
        ELSE /\ call' = call /\ ncalls' = ncalls /\ pc' = "end"
    /\ UNCHANGED <<url, choice, clicked, info, nfetch, fetch_raised>>
    /\ UNCHANGED <<ydl_opts, tmp, fs, requests, result, catalog, extractor>>
    /\ UNCHANGED <<fvars, tvars>>

\* The call returned: st.success and st.download_button.
OfferDownload ==
    /\ pc = "returned"
    /\ result.status = "ok"
    /\ shown' = shown \cup {"success", "download_button"}
    /\ pc' = "end"
    /\ UNCHANGED <<url, choice, clicked, info, ncalls, nfetch, fetch_raised>>
    /\ UNCHANGED <<dvars_but_pc, fvars, tvars>>

\* The call raised: the except clause shows the error.
ShowDownloadError ==
    /\ pc = "returned"
    /\ result.status # "ok"
    /\ IF Caught(result.status)
       THEN shown' = shown \cup {"error_download"} /\ pc' = "end"
       ELSE shown' = shown /\ pc' = "crashed"
    /\ UNCHANGED <<url, choice, clicked, info, ncalls, nfetch, fetch_raised>>
    /\ UNCHANGED <<dvars_but_pc, fvars, tvars>>

\* The footer caption; the script ends and its variables are discarded.
EndRun ==
    /\ pc = "end"
    /\ pc' = "idle"
    /\ url' = "" /\ choice' = "Video" /\ clicked' = FALSE /\ info' = InfoNone
    /\ shown' = {} /\ ncalls' = 0 /\ nfetch' = 0 /\ fetch_raised' = FALSE
    /\ call' = NoCall /\ ydl_opts' = NoOpts /\ result' = NoResult
    /\ catalog' = <<>> /\ extractor' = "stub"
    /\ UNCHANGED <<tmp, fs, requests>>
    /\ UNCHANGED <<fvars, tvars>>

Init == InitDownload /\ InitUI /\ InitIdleFormats /\ InitIdleTransfer

Next ==
    \/ StartRun \/ SkipFetch \/ FetchReturns \/ FetchRaises
    \/ RenderNothing \/ RenderVideo \/ RenderAudio
    \/ EnterTmp \/ ExtractorDownloads \/ ExtractorRaises \/ ExtractorNoOutput
    \/ ScanTmp \/ ExitTmp
    \/ OfferDownload \/ ShowDownloadError \/ EndRun

Spec == Init /\ [][Next]_vars

(***************************************************************************)
(* SpecFormats: a stream list is drawn, then each selector is applied.     *)
(***************************************************************************)
InitFormats ==
    /\ formats \in FormatLists
    /\ fdone = {}
    /\ heights = <<>>
    /\ audio = <<>>
    /\ InitIdleTransfer /\ InitDownload /\ InitUI

ListAvailableResolutions ==
    /\ "list_available_resolutions" \notin fdone
    /\ heights' = list_available_resolutions(formats)
    /\ fdone' = fdone \cup {"list_available_resolutions"}
    /\ UNCHANGED <<formats, audio>>
    /\ UNCHANGED <<tvars, dvars, uvars>>

ListAudioFormats ==
    /\ "list_audio_formats" \notin fdone
    /\ audio' \in list_audio_formats(formats)
    /\ fdone' = fdone \cup {"list_audio_formats"}
    /\ UNCHANGED <<formats, heights>>
    /\ UNCHANGED <<tvars, dvars, uvars>>

NextFormats == ListAvailableResolutions \/ ListAudioFormats

SpecFormats == InitFormats /\ [][NextFormats]_vars

(***************************************************************************)
(* SpecTransfer: a directory and an extension are drawn, then each         *)
(* transfer function is applied.                                           *)
(***************************************************************************)
InitTransfer ==
    /\ folder \in Folders
    /\ ext \in ExtPool
    /\ tdone = {} /\ scan = NoScan /\ mime = ""
    /\ InitIdleFormats /\ InitDownload /\ InitUI

ReadFirstFileByPrefix ==
    /\ "read_first_file_by_prefix" \notin tdone
    /\ \E listing \in Orders(DOMAIN folder) :
        scan' = read_first_file_by_prefix(listing, folder, STEM)
    /\ tdone' = tdone \cup {"read_first_file_by_prefix"}
    /\ UNCHANGED <<folder, ext, mime>>
    /\ UNCHANGED <<fvars, dvars, uvars>>

DetectMimeFromExt ==
    /\ "detect_mime_from_ext" \notin tdone
    /\ mime' = detect_mime_from_ext(ext)
    /\ tdone' = tdone \cup {"detect_mime_from_ext"}
    /\ UNCHANGED <<folder, ext, scan>>
    /\ UNCHANGED <<fvars, dvars, uvars>>

NextTransfer == ReadFirstFileByPrefix \/ DetectMimeFromExt

SpecTransfer == InitTransfer /\ [][NextTransfer]_vars

(***************************************************************************)
(* The properties.                                                         *)
(***************************************************************************)
InCall == pc \in {"extract", "scan", "exit"}

\* C1: the scratch directory a download call creates is gone once the call has
\* ended, whether it returned a result, the extractor raised, or no file with
\* the stem was found; so no scratch directory exists outside a call's with
\* block, in particular when the next call starts.
C1_ScratchDirectoryGone ==
    /\ ~InCall => DOMAIN fs = {} /\ tmp = NoTmp
    /\ pc = "returned" =>
        result.status \in {"ok", "DownloadError", "FileNotFoundError"}

C1_Witness ==
    /\ pc = "returned"
    /\ requests = 2
    /\ result.status = "FileNotFoundError"
    /\ DOMAIN fs = {}

ThreeTier(h) ==
    << <<Term("bestvideo", h), Term("bestaudio", <<>>)>>,
       <<Term("best", h)>>,
       <<Term("best", <<>>)>> >>

\* C3: with the left-to-right extractor, download_video returns a result
\* whenever the catalog holds a stream, whatever the target height, and the
\* expression it builds for a target height is exact-height video plus best
\* audio, then best at that height, then best.
C3_FallbackToBest ==
    /\ (/\ pc = "returned"
        /\ call.fn = "download_video"
        /\ extractor = "stub"
        /\ catalog # <<>>) => result.status = "ok"
    /\ (/\ InCall
        /\ call.fn = "download_video"
        /\ Truthy(call.height)) => ydl_opts.format = ThreeTier(call.height)

C3_Witness ==
    /\ pc = "returned"
    /\ call = [fn |-> "download_video", height |-> <<1080>>]
    /\ extractor = "stub"
    /\ catalog = << Fmt("vp9", "none", <<720>>, <<>>, "webm"),
                    Fmt("avc1", "none", <<480>>, <<>>, "mp4") >>
    /\ result.status = "ok"

\* C2: an error raised by the metadata fetch or by a download is shown as an
\* error message; the script does not crash and calls neither more than once
\* in a run; a run whose download failed shows no download offer, which is
\* shown only after the call returned a result.
C2_ErrorsShownNotRetried ==
    /\ pc # "crashed"
    /\ nfetch <= 1 /\ ncalls <= 1
    /\ fetch_raised => "error_fetch" \in shown
    /\ (pc = "end" /\ result.status \in Exceptions) =>
        "error_download" \in shown /\ "download_button" \notin shown
    /\ "download_button" \in shown => result.status = "ok"

C2_Witness ==
    /\ pc = "end"
    /\ result.status = "DownloadError"
    /\ shown = {"title", "resolution_select", "video_button", "error_download"}

Stemmed(name) == Len(name) >= 7 /\ SubSeq(name, 1, 7) = STEM

\* C4: list_available_resolutions returns strictly descending integers, hence
\* without duplicates, each the height of an input stream whose video codec is
\* not "none"; the empty stream list gives the empty list.
C4_ResolutionsDescending ==
    "list_available_resolutions" \in fdone =>
        /\ \A i \in DOMAIN heights : heights[i] \in Int
        /\ \A i, j \in DOMAIN heights : i < j => heights[i] > heights[j]
        /\ \A i \in DOMAIN heights : \E f \in Range(formats) :
            f.vcodec # "none" /\ f.height = <<heights[i]>>
        /\ formats = <<>> => heights = <<>>

C4_Witness ==
    /\ "list_available_resolutions" \in fdone
    /\ heights = <<1080, 720>>
    /\ Len(formats) = 3
    /\ formats[1].height = <<720>> /\ formats[3].height = <<720>>

HasVideoCodec(f) == f.vcodec \notin {Absent, "none"}

\* C5 as stated: every returned height comes from a stream that has a video
\* codec attribute other than "none".
C5_OnlyPresentCodec ==
    "list_available_resolutions" \in fdone =>
        \A i \in DOMAIN heights : \E f \in Range(formats) :
            HasVideoCodec(f) /\ f.height = <<heights[i]>>

\* C5 amended: a height is returned only for a stream whose video codec is not
\* "none" and whose height is known and not 0; a stream with video codec "none"
\* contributes nothing, and a stream with a known height and no video codec
\* attribute does contribute its height.
C5_OnlyNotNoneCodec ==
    "list_available_resolutions" \in fdone =>
        /\ \A i \in DOMAIN heights : \E f \in Range(formats) :
            f.vcodec # "none" /\ f.height = <<heights[i]>> /\ heights[i] # 0
        /\ \A f \in Range(formats) :
            (f.vcodec = Absent /\ f.height # <<>> /\ f.height # <<0>>) =>
                \E i \in DOMAIN heights : f.height = <<heights[i]>>

C5_Witness ==
    /\ "list_available_resolutions" \in fdone
    /\ heights = <<480>>
    /\ \E i \in DOMAIN formats : formats[i].vcodec = Absent
    /\ \E i \in DOMAIN formats :
        formats[i].vcodec = "none" /\ formats[i].height = <<360>>

\* C6: the result of list_audio_formats holds no pair twice, and each pair is
\* the (ext, bitrate) of an input stream whose video codec is "none" and whose
\* audio codec is neither "none" nor missing; the empty list gives the empty
\* list.
C6_AudioDistinctFromAudioOnly ==
    "list_audio_formats" \in fdone =>
        /\ \A i, j \in DOMAIN audio : audio[i] = audio[j] => i = j
        /\ \A i \in DOMAIN audio : \E f \in Range(formats) :
            /\ f.vcodec = "none"
            /\ f.acodec # "none" /\ f.acodec # Absent
            /\ audio[i] = AudioEntry(f)
        /\ formats = <<>> => audio = <<>>

C6_Witness ==
    /\ "list_audio_formats" \in fdone
    /\ audio = << <<"webm", <<160>> >> >>
    /\ Len(formats) = 3
    /\ formats[1].abr = <<1600>> /\ formats[2].abr = <<1605>>
    /\ formats[3].acodec = "none"

Bitrate(e) == IF e[2] = <<>> THEN 0 ELSE e[2][1]

\* C7: the result of list_audio_formats is in descending order of bitrate, an
\* unknown bitrate counting as 0, and every pair with unknown bitrate comes
\* after every pair with a known positive bitrate.
C7_AudioByBitrateDescending ==
    "list_audio_formats" \in fdone =>
        \A i, j \in DOMAIN audio : i < j =>
            /\ Bitrate(audio[i]) >= Bitrate(audio[j])
            /\ ~(audio[i][2] = <<>> /\ audio[j][2] # <<>> /\ audio[j][2][1] > 0)

C7_Witness ==
    /\ "list_audio_formats" \in fdone
    /\ Len(audio) = 3
    /\ audio[1][2] = <<160>> /\ audio[2][2] = <<128>> /\ audio[3][2] = <<>>
    /\ formats[1].abr = <<>>

\* C8: the scan fails with FileNotFoundError exactly when the directory holds
\* no name that starts with the stem; otherwise it returns the name and the
\* bytes of a file of the directory whose name starts with the stem.
C8_ScanFindsStemmedFile ==
    "read_first_file_by_prefix" \in tdone =>
        /\ scan.status \in {"ok", "FileNotFoundError"}
        /\ scan.status = "FileNotFoundError" <=>
            \A n \in DOMAIN folder : ~Stemmed(n)
        /\ scan.status = "ok" =>
            /\ scan.filename \in DOMAIN folder
            /\ Stemmed(scan.filename)
            /\ scan.data = folder[scan.filename]
        /\ DOMAIN folder = {} => scan.status = "FileNotFoundError"

C8_Witness ==
    /\ "read_first_file_by_prefix" \in tdone
    /\ scan.status = "ok"
    /\ scan.data = "b2"
    /\ \E n \in DOMAIN folder : ~Stemmed(n) /\ Contains(n, STEM) /\ folder[n] = "b1"

EightExtensions ==
    { <<"m","p","4">>, <<"w","e","b","m">>, <<"m","k","v">>, <<"m","p","3">>,
      <<"m","4","a">>, <<"a","a","c">>, <<"o","p","u","s">>, <<"w","a","v">> }

TableValue(e) ==
    IF e \in EightExtensions THEN mapping[e] ELSE "application/octet-stream"

\* C9 as stated: the MIME type is the table's value for the extension as it
\* is written, and for the text after the last dot of the returned file name.
C9_TableOfExtensionAsWritten ==
    /\ "detect_mime_from_ext" \in tdone => mime = TableValue(ext)
    /\ scan.status = "ok" => scan.mime = TableValue(LastPart(scan.filename))

\* C9 amended: the table has the eight extensions, with mp3 mapped to
\* audio/mpeg and mkv to video/x-matroska; the MIME type is the table's value
\* for the extension in lower case, application/octet-stream when the
\* lower-cased extension is not in the table; and the MIME type returned with
\* a file is that of the text after the last dot of its name.
C9_TableOfLowerCasedExtension ==
    /\ DOMAIN mapping = EightExtensions
    /\ mapping[<<"m","p","3">>] = "audio/mpeg"
    /\ mapping[<<"m","k","v">>] = "video/x-matroska"
    /\ "detect_mime_from_ext" \in tdone => mime = TableValue(Lower(ext))
    /\ scan.status = "ok" => scan.mime = TableValue(Lower(LastPart(scan.filename)))

C9_Witness ==
    /\ "detect_mime_from_ext" \in tdone
    /\ ext = <<"M","P","3">> /\ mime = "audio/mpeg"
    /\ scan.status = "ok"
    /\ scan.filename = STEM \o <<"M","K","V">>
    /\ scan.mime = "video/x-matroska"

\* C10: a download is called in a run only if the URL is not empty and the
\* metadata fetch returned a non-empty result without raising; otherwise the
\* run renders no mode-specific control, makes no download call and shows no
\* download offer; a run makes at most one download call, of the selected
\* mode.
C10_DownloadBehindMetadataGate ==
    /\ (ncalls > 0 \/ pc \in {"enter", "extract", "scan", "exit", "returned"}) =>
        /\ url # ""
        /\ nfetch = 1 /\ ~fetch_raised
        /\ info.kind = "dict"
    /\ (pc \in {"end", "crashed"} /\ (url = "" \/ fetch_raised \/ info.kind # "dict")) =>
        /\ shown \cap Controls = {}
        /\ "download_button" \notin shown
        /\ ncalls = 0 /\ call = NoCall
    /\ ncalls <= 1
    /\ call.fn = "download_video" => choice = "Video"
    /\ call.fn = "download_audio" => choice = "Audio"

C10_Witness ==
    /\ pc = "end"
    /\ clicked /\ url # "" /\ fetch_raised
    /\ shown = {"error_fetch"}
    /\ ncalls = 0

====
